---- MODULE Spec2Model ----
(***************************************************************************)
(* Model of environments/med_agent_bench/med_agent_bench.py: the           *)
(* completion check (MedAgentBenchEnv.is_completed), the executor          *)
(* (MedAgentBenchEnv.env_response) and the grading entry point             *)
(* (medagent_bench_reward_func, eval).                                     *)
(*                                                                         *)
(* Text is a sequence of chunks whose concatenation is the Python string.  *)
(* Assistant utterances, case identifiers and backend payloads are written *)
(* one character per chunk, so that prefix tests, slices, strip, replace,  *)
(* split and json.loads are computed character by character.  The fixed    *)
(* literals of the observations the program emits are one chunk each.      *)
(***************************************************************************)
EXTENDS Integers, Sequences, FiniteSets, TLC

VARIABLES state, last, convs, env

vars == <<state, last, convs, env>>

(***************************************************************************)
(* Bounds                                                                  *)
(***************************************************************************)
\* Longest history prefix placed in front of the last message of a call.
MaxPrefix == 1

\* The max_turns a rollout is run with (the environment's default is 8).
MaxTurns == 2

(***************************************************************************)
(* Python str operations used by the program                               *)
(***************************************************************************)
\* Characters str.strip() removes.
Whitespace == {" ", "\n", "\t", "\r"}

\* content.startswith(prefix)
StartsWith(s, prefix) ==
    /\ Len(s) >= Len(prefix)
    /\ SubSeq(s, 1, Len(prefix)) = prefix

\* s[start:stop] for start >= 0 and any stop (a negative stop counts from the end).
Slice(s, start, stop) ==
    LET n  == Len(s)
        e0 == IF stop < 0 THEN stop + n ELSE stop
        e  == IF e0 < 0 THEN 0 ELSE IF e0 > n THEN n ELSE e0
        b  == IF start > n THEN n ELSE start
    IN  IF b < e THEN SubSeq(s, b + 1, e) ELSE <<>>

\* s[start:]
SliceFrom(s, start) == Slice(s, start, Len(s))

\* s.strip()
Strip(s) ==
    LET keep == {i \in 1..Len(s) : s[i] \notin Whitespace}
    IN  IF keep = {} THEN <<>>
        ELSE LET lo == CHOOSE i \in keep : \A j \in keep : i <= j
                 hi == CHOOSE i \in keep : \A j \in keep : i >= j
             IN  SubSeq(s, lo, hi)

\* s.replace(old, ""): every non-overlapping occurrence, scanning left to right.
RECURSIVE Remove(_, _)
Remove(s, old) ==
    IF s = <<>> THEN <<>>
    ELSE IF StartsWith(s, old) THEN Remove(SliceFrom(s, Len(old)), old)
    ELSE <<Head(s)>> \o Remove(Tail(s), old)

\* s.split(sep) for a one-character separator: the list of fields.
RECURSIVE Split(_, _)
Split(s, sep) ==
    LET hits == {i \in 1..Len(s) : s[i] = sep}
    IN  IF hits = {} THEN <<s>>
        ELSE LET k == CHOOSE i \in hits : \A j \in hits : i <= j
             IN  <<SubSeq(s, 1, k - 1)>> \o Split(SubSeq(s, k + 1, Len(s)), sep)

\* sep.join(parts)
RECURSIVE Join(_, _)
Join(parts, sep) ==
    IF parts = <<>> THEN <<>>
    ELSE IF Len(parts) = 1 THEN parts[1]
    ELSE parts[1] \o <<sep>> \o Join(Tail(parts), sep)

(***************************************************************************)
(* json.loads: a recogniser for the JSON grammar the standard decoder      *)
(* accepts (strict mode).  Every J* operator takes the text and a 1-based  *)
(* position and returns the position after the item, or 0 when the         *)
(* decoder would raise.                                                    *)
(***************************************************************************)
Digits == {"0", "1", "2", "3", "4", "5", "6", "7", "8", "9"}

HexDigits == Digits \cup {"a", "b", "c", "d", "e", "f", "A", "B", "C", "D", "E", "F"}

\* Characters that may not appear raw inside a JSON string.
ControlChars == {"\n", "\t", "\r"}

\* The character at position i, or "" past the end of the text.
At(s, i) == IF i \in 1..Len(s) THEN s[i] ELSE ""

\* The position of the first non-whitespace character at or after i.
JWs(s, i) ==
    LET stop == {j \in i..Len(s) : s[j] \notin Whitespace}
    IN  IF stop = {} THEN Len(s) + 1
        ELSE CHOOSE j \in stop : \A k \in stop : j <= k

\* The position of the first non-digit at or after i.
JDigitsEnd(s, i) ==
    LET stop == {j \in i..Len(s) : s[j] \notin Digits}
    IN  IF stop = {} THEN Len(s) + 1
        ELSE CHOOSE j \in stop : \A k \in stop : j <= k

\* The literal lit occurs at position i.
JLiteral(s, i, lit) ==
    IF i + Len(lit) - 1 <= Len(s) /\ SubSeq(s, i, i + Len(lit) - 1) = lit
    THEN i + Len(lit) ELSE 0

\* Scans the inside of a string from position j up to its closing quote.
RECURSIVE JStringEnd(_, _)
JStringEnd(s, j) ==
    LET c == At(s, j)
    IN  IF c = "" \/ c \in ControlChars THEN 0
        ELSE IF c = "\"" THEN j + 1
        ELSE IF c = "\\" THEN
            IF At(s, j + 1) \in {"\"", "\\", "/", "b", "f", "n", "r", "t"}
            THEN JStringEnd(s, j + 2)
            ELSE IF /\ At(s, j + 1) = "u"
                    /\ \A k \in (j + 2)..(j + 5) : At(s, k) \in HexDigits
            THEN JStringEnd(s, j + 6)
            ELSE 0
        ELSE JStringEnd(s, j + 1)

JString(s, i) == IF At(s, i) = "\"" THEN JStringEnd(s, i + 1) ELSE 0

\* -?(0|[1-9][0-9]*)(\.[0-9]+)?([eE][-+]?[0-9]+)?
JNumber(s, i) ==
    LET a == IF At(s, i) = "-" THEN i + 1 ELSE i
        b == IF At(s, a) = "0" THEN a + 1
             ELSE IF At(s, a) \in Digits THEN JDigitsEnd(s, a)
             ELSE 0
        c == IF b # 0 /\ At(s, b) = "." /\ At(s, b + 1) \in Digits
             THEN JDigitsEnd(s, b + 1) ELSE b
        d == IF At(s, c + 1) \in {"+", "-"} THEN c + 2 ELSE c + 1
        e == IF c # 0 /\ At(s, c) \in {"e", "E"} /\ At(s, d) \in Digits
             THEN JDigitsEnd(s, d) ELSE c
    IN  e

RECURSIVE JValue(_, _), JElements(_, _), JMembers(_, _)

\* One value starting exactly at position i.
JValue(s, i) ==
    LET c == At(s, i)
    IN  IF c = "\"" THEN JString(s, i)
        ELSE IF c = "{" THEN
            LET j == JWs(s, i + 1)
            IN  IF At(s, j) = "}" THEN j + 1 ELSE JMembers(s, j)
        ELSE IF c = "[" THEN
            LET j == JWs(s, i + 1)
            IN  IF At(s, j) = "]" THEN j + 1 ELSE JElements(s, j)
        ELSE IF c = "n" THEN JLiteral(s, i, <<"n", "u", "l", "l">>)
        ELSE IF c = "t" THEN JLiteral(s, i, <<"t", "r", "u", "e">>)
        ELSE IF c = "f" THEN JLiteral(s, i, <<"f", "a", "l", "s", "e">>)
        ELSE IF c = "N" THEN JLiteral(s, i, <<"N", "a", "N">>)
        ELSE IF c = "I" THEN
            JLiteral(s, i, <<"I", "n", "f", "i", "n", "i", "t", "y">>)
        ELSE IF c = "-" /\ At(s, i + 1) = "I" THEN
            JLiteral(s, i, <<"-", "I", "n", "f", "i", "n", "i", "t", "y">>)
        ELSE JNumber(s, i)

\* The elements of an array from the element at position i to the closing bracket.
JElements(s, i) ==
    LET v == JValue(s, i)
        k == JWs(s, v)
    IN  IF v = 0 THEN 0
        ELSE IF At(s, k) = "]" THEN k + 1
        ELSE IF At(s, k) = "," THEN JElements(s, JWs(s, k + 1))
        ELSE 0

\* The members of an object from the key at position i to the closing brace.
JMembers(s, i) ==
    LET e == JString(s, i)
        k == JWs(s, e)
        v == JValue(s, JWs(s, k + 1))
        m == JWs(s, v)
    IN  IF e = 0 \/ At(s, k) # ":" \/ v = 0 THEN 0
        ELSE IF At(s, m) = "}" THEN m + 1
        ELSE IF At(s, m) = "," THEN JMembers(s, JWs(s, m + 1))
        ELSE 0

\* json.loads(s) returns (TRUE) or raises (FALSE): one value, surrounded by
\* optional whitespace, and nothing after it.
json_loads(s) ==
    LET v == JValue(s, JWs(s, 1))
    IN  v # 0 /\ JWs(s, v) = Len(s) + 1

(***************************************************************************)
(* Literals of the program                                                 *)
(***************************************************************************)
\* The backtick character (a string literal cannot hold it).
BACKTICK == "<backtick>"

\* 'FINISH('
FINISH_PREFIX == <<"F", "I", "N", "I", "S", "H", "(">>

\* 'GET'
GET_PREFIX == <<"G", "E", "T">>

\* 'POST'
POST_PREFIX == <<"P", "O", "S", "T">>

\* '```tool_code'
FENCE_TOOL_CODE == <<BACKTICK, BACKTICK, BACKTICK, "t", "o", "o", "l", "_", "c", "o", "d", "e">>

\* '```'
FENCE == <<BACKTICK, BACKTICK, BACKTICK>>

\* "&_format=json", appended to the url of every GET.
FORMAT_JSON == "&_format=json"

GET_RESPONSE_HEADER == "Here is the response from the GET request:\n"

GET_ERROR_HEADER == "Error in sending the GET request: "

POST_ACCEPTED == "POST request accepted and executed successfully. "

POST_INVALID == "Invalid POST request format"

\* The reminder that closes the observation of a successful GET or POST.
FINISH_REMINDER ==
    "Please call FINISH if you have got answers for all the questions and finished all the requested tasks"

(***************************************************************************)
(* Inputs: assistant utterances, messages, histories, backend outcomes     *)
(***************************************************************************)
\* FINISH([1, 2])
U_FINISH_1_2 ==
    <<"F", "I", "N", "I", "S", "H", "(", "[", "1", ",", " ", "2", "]", ")">>

\* FINISH(   (nothing after the parenthesis)
U_FINISH_BARE ==
    <<"F", "I", "N", "I", "S", "H", "(">>

\* FINISH([1   (no closing parenthesis)
U_FINISH_OPEN ==
    <<"F", "I", "N", "I", "S", "H", "(", "[", "1">>

\* ```FINISH([7])```
U_FINISH_FENCED ==
    <<BACKTICK, BACKTICK, BACKTICK, "F", "I", "N", "I", "S", "H", "(", "[", "7", "]", ")",
    BACKTICK, BACKTICK, BACKTICK>>

\* FINISH   (no parenthesis)
U_FINISH_WORD ==
    <<"F", "I", "N", "I", "S", "H">>

\* HELLO
U_HELLO ==
    <<"H", "E", "L", "L", "O">>

\* a space and a newline: empty once stripped
U_EMPTY ==
    <<" ", "\n">>

\* get a   (lower case)
U_GET_LOWER ==
    <<"g", "e", "t", " ", "a">>

\* GET patients?id=1
U_GET ==
    <<"G", "E", "T", " ", "p", "a", "t", "i", "e", "n", "t", "s", "?", "i",
    "d", "=", "1">>

\* ```tool_code\nGET a\n```
U_GET_FENCED ==
    <<BACKTICK, BACKTICK, BACKTICK, "t", "o", "o", "l", "_", "c", "o", "d", "e", "\n", "G",
    "E", "T", " ", "a", "\n", BACKTICK, BACKTICK, BACKTICK>>

\* POST patients\n{"a":1}
U_POST_JSON ==
    <<"P", "O", "S", "T", " ", "p", "a", "t", "i", "e", "n", "t", "s", "\n",
    "{", "\"", "a", "\"", ":", "1", "}">>

\* POST patients\n{"bad json"
U_POST_BAD ==
    <<"P", "O", "S", "T", " ", "p", "a", "t", "i", "e", "n", "t", "s", "\n",
    "{", "\"", "b", "a", "d", " ", "j", "s", "o", "n", "\"">>

\* POST patients   (no body)
U_POST_NOBODY ==
    <<"P", "O", "S", "T", " ", "p", "a", "t", "i", "e", "n", "t", "s">>

\* " POST a\n\n[1, {"b": null}]\n"
U_POST_SPACED ==
    <<" ", "P", "O", "S", "T", " ", "a", "\n", "\n", "[", "1", ",", " ",
    "{", "\"", "b", "\"", ":", " ", "n", "u", "l", "l", "}", "]", "\n">>

Utterances ==
    {U_FINISH_1_2, U_FINISH_BARE, U_FINISH_OPEN, U_FINISH_FENCED, U_FINISH_WORD,
     U_HELLO, U_EMPTY, U_GET_LOWER, U_GET, U_GET_FENCED,
     U_POST_JSON, U_POST_BAD, U_POST_NOBODY, U_POST_SPACED}

\* The prompt generate_prompt_messages builds (its text is not inspected).
PROMPT == <<"You are an expert in using FHIR functions ...">>

Msg(role, content) == [role |-> role, content |-> content]

\* Messages a history can end with: any assistant utterance, and user
\* messages, among them ones whose text looks like a command.
Messages ==
    {Msg("assistant", u) : u \in Utterances}
        \cup {Msg("user", c) : c \in {PROMPT, U_FINISH_1_2, U_HELLO, U_GET}}

\* The first n messages of a conversation that began with the prompt, a
\* FINISH from the assistant and a user message.
Prefix(n) ==
    [i \in 1..n |->
        IF i = 1 THEN Msg("user", PROMPT)
        ELSE IF i % 2 = 0 THEN Msg("assistant", U_FINISH_1_2)
        ELSE Msg("user", U_HELLO)]

\* The message lists passed to is_completed, env_response and the reward
\* function: the empty list, and every prefix followed by one last message.
Histories ==
    {<<>>} \cup {Prefix(n) \o <<m>> : n \in 0..MaxPrefix, m \in Messages}

\* Payloads and error texts of the backend.
Payloads == {<<"X">>, <<"{", "\"", "n", "\"", ":", "0", "}">>}

Errors == {<<"E">>}

\* What the call send_get_request(url) can do: return a dict with a data
\* field, with an error field or with neither, or raise.
Returned(res) == [raises |-> FALSE, result |-> res]

BackendOutcomes ==
    {Returned("data" :> d) : d \in Payloads}
        \cup {Returned("error" :> e) : e \in Errors}
        \cup {Returned(<<>>)}
        \cup {[raises |-> TRUE, result |-> <<>>]}

(***************************************************************************)
(* The conversation state: a Python dict, here a function whose domain is  *)
(* the set of keys present.                                                *)
(***************************************************************************)
\* The state of a new conversation: neither "status" nor "final_answer".
NewState == <<>>

\* What dict.get(key) returns for an absent key.
None == "None"

\* st.get(key)
DictGet(st, key) == IF key \in DOMAIN st THEN st[key] ELSE None

\* st[key] = value
DictSet(st, key, value) == (key :> value) @@ st

\* Variant: the code-fence markers are left in.
StripFences_StripOnly(content) == Strip(content)

\* The content of a message with the code-fence markers and the surrounding
\* whitespace removed.
StripFences(content) ==
    Strip(Remove(Remove(Strip(content), FENCE_TOOL_CODE), FENCE))

(***************************************************************************)
(* MedAgentBenchEnv.is_completed(messages, state): the value returned and  *)
(* the state dict after the call.                                          *)
(***************************************************************************)
\* Variant: only "completed" counts as already determined.
AlreadyDetermined_CompletedOnly(st) == DictGet(st, "status") = "completed"

\* The completion status was determined by an earlier call.
AlreadyDetermined(st) == DictGet(st, "status") \in {"completed", "invalid_action"}

\* Variant: the last character is dropped only when it is the parenthesis.
FinishAnswer_ToParen(content) ==
    IF content[Len(content)] = ")" THEN Slice(content, Len(FINISH_PREFIX), -1)
    ELSE SliceFrom(content, Len(FINISH_PREFIX))

\* Variant: the brackets of the list are dropped with the parentheses.
FinishAnswer_Inner(content) == Slice(content, Len(FINISH_PREFIX) + 1, -2)

\* The answer captured from a FINISH(...) utterance.
FinishAnswer(content) == Slice(content, Len(FINISH_PREFIX), -1)

\* Variant: the answer is not stored.
FinishState_StatusOnly(st, answer) == DictSet(st, "status", "completed")

\* The state after a FINISH: the answer stored, the status completed.
FinishState(st, answer) ==
    DictSet(DictSet(st, "final_answer", answer), "status", "completed")

\* Variant: only GET is a known command.
IsInvalidCommand_GetOnly(content) == ~StartsWith(content, GET_PREFIX)

\* Variant: an unknown command is let through.
IsInvalidCommand_Lenient(content) == FALSE

\* The content is neither a GET nor a POST (tested after FINISH).
IsInvalidCommand(content) ==
    ~(StartsWith(content, GET_PREFIX) \/ StartsWith(content, POST_PREFIX))

\* Variant: a FINISH stores the answer but the check reports false.
is_completed_FinishContinues(messages, st) ==
    IF messages = <<>> THEN [ret |-> FALSE, state |-> st]
    ELSE IF AlreadyDetermined(st) THEN [ret |-> TRUE, state |-> st]
    ELSE LET last_msg == messages[Len(messages)]
             content  == StripFences(last_msg.content)
         IN  IF last_msg.role # "assistant" THEN [ret |-> FALSE, state |-> st]
             ELSE IF StartsWith(content, FINISH_PREFIX)
             THEN [ret |-> FALSE, state |-> FinishState(st, FinishAnswer(content))]
             ELSE IF IsInvalidCommand(content)
             THEN [ret |-> TRUE, state |-> DictSet(st, "status", "invalid_action")]
             ELSE [ret |-> FALSE, state |-> st]

is_completed(messages, st) ==
    IF messages = <<>> THEN [ret |-> FALSE, state |-> st]
    ELSE IF AlreadyDetermined(st) THEN [ret |-> TRUE, state |-> st]
    ELSE LET last_msg == messages[Len(messages)]
             content  == StripFences(last_msg.content)
         IN  IF last_msg.role # "assistant" THEN [ret |-> FALSE, state |-> st]
             ELSE IF StartsWith(content, FINISH_PREFIX)
             THEN [ret |-> TRUE, state |-> FinishState(st, FinishAnswer(content))]
             ELSE IF IsInvalidCommand(content)
             THEN [ret |-> TRUE, state |-> DictSet(st, "status", "invalid_action")]
             ELSE [ret |-> FALSE, state |-> st]

(***************************************************************************)
(* MedAgentBenchEnv.env_response(messages, state) when send_get_request    *)
(* behaves as `backend`: the messages returned, the state returned, the    *)
(* urls sent to the backend, and whether the call raised instead of        *)
(* returning.                                                              *)
(***************************************************************************)
EnvResult(response, st, requests) ==
    [response |-> response, state |-> st, requests |-> requests, raised |-> FALSE]

EnvRaised(st, requests) ==
    [response |-> <<>>, state |-> st, requests |-> requests, raised |-> TRUE]

\* Variant: the payload is reported without the reminder.
GetDataObservation_Bare(data) == Msg("user", <<GET_RESPONSE_HEADER>> \o data)

\* The observation of a GET whose result has a data field.
GetDataObservation(data) ==
    Msg("user", <<GET_RESPONSE_HEADER>> \o data \o <<". ", FINISH_REMINDER>>)

\* Variant: the error report closes with the reminder too.
GetErrorObservation_Reminder(error) ==
    Msg("user", <<GET_ERROR_HEADER>> \o error \o <<". ", FINISH_REMINDER>>)

\* The observation of a GET whose result has no data field.
GetErrorObservation(error) == Msg("user", <<GET_ERROR_HEADER>> \o error)

\* Variant: the first line is not dropped.
PostBody_WholeContent(content) == content

\* The text json.loads is given: the lines of the content after the first.
PostBody(content) == Join(Tail(Split(content, "\n")), "\n")

PostAcceptedObservation == Msg("user", <<POST_ACCEPTED, FINISH_REMINDER>>)

PostInvalidObservation == Msg("user", <<POST_INVALID>>)

\* Variant: a failed GET ends the conversation.
GetErrorState_Ends(st) == DictSet(st, "status", "invalid_action")

\* The state returned with the observation of a failed GET: the one passed in.
GetErrorState(st) == st

env_response(messages, st, backend) ==
    IF messages = <<>> THEN EnvResult(<<>>, st, <<>>)
    ELSE
    LET last_msg == messages[Len(messages)]
        content  == StripFences(last_msg.content)
    IN  IF last_msg.role # "assistant" THEN EnvResult(<<>>, st, <<>>)
        ELSE IF StartsWith(content, GET_PREFIX) THEN
            LET url     == Strip(SliceFrom(content, 3)) \o <<FORMAT_JSON>>
                get_res == backend.result
            IN  IF backend.raises THEN EnvRaised(st, <<url>>)
                ELSE IF "data" \in DOMAIN get_res
                THEN EnvResult(<<GetDataObservation(get_res["data"])>>, st, <<url>>)
                ELSE IF "error" \in DOMAIN get_res
                THEN EnvResult(<<GetErrorObservation(get_res["error"])>>,
                               GetErrorState(st), <<url>>)
                ELSE EnvRaised(st, <<url>>)
        ELSE IF StartsWith(content, POST_PREFIX) THEN
            IF json_loads(PostBody(content))
            THEN EnvResult(<<PostAcceptedObservation>>, st, <<>>)
            ELSE EnvResult(<<PostInvalidObservation>>, st, <<>>)
        ELSE EnvResult(<<>>, st, <<>>)

(***************************************************************************)
(* Grading: medagent_bench_reward_func and eval                            *)
(***************************************************************************)
\* Case identifiers, "<taskId>_<instanceIndex>".
CASE_TASK3_7 == <<"t", "a", "s", "k", "3", "_", "7">>

CASE_TASK3_0 == <<"t", "a", "s", "k", "3", "_", "0">>

CASE_TASK9_1 == <<"t", "a", "s", "k", "9", "_", "1">>

\* An identifier with a second underscore.
CASE_TASK1_2_3 == <<"t", "a", "s", "k", "1", "_", "2", "_", "3">>

CaseIds == {CASE_TASK3_7, CASE_TASK3_0, CASE_TASK9_1, CASE_TASK1_2_3}

\* The names refsol defines a grader under.
RegisteredGraders == {<<"t", "a", "s", "k", "3">>, <<"t", "a", "s", "k", "1">>}

\* What a grader can do when called: return True, return False, return a
\* truthy value that is not True, or raise.
GraderOutcomes == {"True", "False", "truthy", "raises"}

\* The completions handed to the reward function.
Completions == {Prefix(n) : n \in 0..MaxPrefix}

\* Variant: each message is put in front of the ones already listed.
RECURSIVE ResultsHistory_Reversed(_)
ResultsHistory_Reversed(completion) ==
    IF completion = <<>> THEN <<>>
    ELSE LET msg == Head(completion)
         IN  ResultsHistory_Reversed(Tail(completion))
                \o (IF msg.role = "assistant" THEN <<Msg("agent", msg.content)>>
                    ELSE IF msg.role = "user" THEN <<Msg("user", msg.content)>>
                    ELSE <<>>)

\* Results(completion, final_answer): the history of role-tagged messages
\* and the stored answer.
RECURSIVE ResultsHistory(_)
ResultsHistory(completion) ==
    IF completion = <<>> THEN <<>>
    ELSE LET msg == Head(completion)
         IN  (IF msg.role = "assistant" THEN <<Msg("agent", msg.content)>>
              ELSE IF msg.role = "user" THEN <<Msg("user", msg.content)>>
              ELSE <<>>) \o ResultsHistory(Tail(completion))

Results(completion, final_answer) ==
    [history |-> ResultsHistory(completion), result |-> final_answer]

\* Variant: any truthy value of the grader counts as success.
eval_Truthy(case_id, results, grader) ==
    LET task_id == Split(case_id, "_")[1]
    IN  IF task_id \notin RegisteredGraders
        THEN [raises |-> TRUE, value |-> None, called |-> <<>>]
        ELSE IF grader \in {"True", "truthy"}
        THEN [raises |-> FALSE, value |-> "True", called |-> task_id]
        ELSE IF grader = "raises"
        THEN [raises |-> FALSE, value |-> "False", called |-> task_id]
        ELSE [raises |-> FALSE, value |-> None, called |-> task_id]

\* Variant: the task identifier is cut at the last underscore.
eval_LastUnderscore(case_id, results, grader) ==
    LET fields  == Split(case_id, "_")
        task_id == Join(SubSeq(fields, 1, Len(fields) - 1), "_")
    IN  IF task_id \notin RegisteredGraders
        THEN [raises |-> TRUE, value |-> None, called |-> <<>>]
        ELSE IF grader = "True"
        THEN [raises |-> FALSE, value |-> "True", called |-> task_id]
        ELSE IF grader = "raises"
        THEN [raises |-> FALSE, value |-> "False", called |-> task_id]
        ELSE [raises |-> FALSE, value |-> None, called |-> task_id]

\* eval(case_data, results, fhir_api_base) when the grader behaves as
\* `grader`: the value returned ("True", "False" or "None"), whether the
\* call raised instead, and the grader called (<<>> when none was).
eval(case_id, results, grader) ==
    LET task_id == Split(case_id, "_")[1]
    IN  IF task_id \notin RegisteredGraders
        THEN [raises |-> TRUE, value |-> None, called |-> <<>>]
        ELSE IF grader = "True"
        THEN [raises |-> FALSE, value |-> "True", called |-> task_id]
        ELSE IF grader = "raises"
        THEN [raises |-> FALSE, value |-> "False", called |-> task_id]
        ELSE [raises |-> FALSE, value |-> None, called |-> task_id]

\* What one call of the reward function did: the reward returned, whether
\* verify_fhir_server was called, the grader called (<<>> when none was) and
\* the Results object built (None when none was).  The call returns in every
\* case (raised is FALSE): what verify_fhir_server, getattr and the grader
\* raise is caught by the except clause.
RewardResult(reward, verified, called, results) ==
    [reward |-> reward, verified |-> verified, called |-> called, results |-> results,
     raised |-> FALSE]

\* Variant: the grader is called without the health check.
medagent_bench_reward_func_NoVerify(completion, case_id, st, healthy, grader) ==
    IF DictGet(st, "status") # "completed" THEN RewardResult(0, FALSE, <<>>, None)
    ELSE IF "final_answer" \notin DOMAIN st THEN RewardResult(0, FALSE, <<>>, None)
    ELSE LET results == Results(completion, st["final_answer"])
             graded  == eval(case_id, results, grader)
         IN  IF graded.raises THEN RewardResult(0, FALSE, <<>>, results)
             ELSE RewardResult(IF graded.value = "True" THEN 1 ELSE 0,
                               FALSE, graded.called, results)

\* Variant: the health check runs before the status is looked at.
medagent_bench_reward_func_VerifyFirst(completion, case_id, st, healthy, grader) ==
    IF ~healthy THEN RewardResult(0, TRUE, <<>>, None)
    ELSE IF DictGet(st, "status") # "completed" THEN RewardResult(0, TRUE, <<>>, None)
    ELSE IF "final_answer" \notin DOMAIN st THEN RewardResult(0, TRUE, <<>>, None)
    ELSE LET results == Results(completion, st["final_answer"])
             graded  == eval(case_id, results, grader)
         IN  IF graded.raises THEN RewardResult(0, TRUE, <<>>, results)
             ELSE RewardResult(IF graded.value = "True" THEN 1 ELSE 0,
                               TRUE, graded.called, results)

\* medagent_bench_reward_func(parser, completion, info, state) when the
\* health check answers `healthy` and the grader behaves as `grader`.
medagent_bench_reward_func(completion, case_id, st, healthy, grader) ==
    IF DictGet(st, "status") # "completed" THEN RewardResult(0, FALSE, <<>>, None)
    ELSE IF "final_answer" \notin DOMAIN st THEN RewardResult(0, FALSE, <<>>, None)
    ELSE LET results == Results(completion, st["final_answer"])
             graded  == eval(case_id, results, grader)
         IN  IF ~healthy THEN RewardResult(0, TRUE, <<>>, results)
             ELSE IF graded.raises THEN RewardResult(0, TRUE, <<>>, results)
             ELSE RewardResult(IF graded.value = "True" THEN 1 ELSE 0,
                               TRUE, graded.called, results)

(***************************************************************************)
(* The state machine: one conversation state dict, and calls of the three  *)
(* entry points in any order on any message list.  `last` records the most *)
(* recent call: its arguments, the state before it and what it did.        *)
(***************************************************************************)
NoBackend == Returned(<<>>)

NoCall ==
    [op        |-> "none",
     messages  |-> <<>>,
     pre       |-> NewState,
     ret       |-> FALSE,
     response  |-> <<>>,
     requests  |-> <<>>,
     raised    |-> FALSE,
     backend   |-> NoBackend,
     case_id   |-> <<>>,
     healthy   |-> FALSE,
     grader    |-> None,
     graded    |-> RewardResult(0, FALSE, <<>>, None)]

\* The attributes __init__ gives the environment.
MedAgentBenchEnv_init ==
    [fhir_api_base |-> <<"http://localhost:8080/fhir/">>, funcs |-> <<"funcs_v1.json">>]

\* The conversations run on the one environment.
Conversations == {"a", "b"}

\* A conversation before its first turn: the prompt, a new state dict.
NotGraded == RewardResult(0, FALSE, <<>>, None)

NewConversation ==
    [messages |-> <<Msg("user", PROMPT)>>,
     state    |-> NewState,
     pc       |-> "agent",
     turns    |-> 0,
     requests |-> <<>>,
     script   |-> <<>>,
     graded   |-> NotGraded]

Init ==
    /\ state = NewState
    /\ last = NoCall
    /\ convs = [i \in Conversations |-> NewConversation]
    /\ env = MedAgentBenchEnv_init

\* A call of is_completed(messages, state).
IsCompleted ==
    \E messages \in Histories :
        LET r == is_completed(messages, state)
        IN  /\ state' = r.state
            /\ last' = [NoCall EXCEPT !.op = "is_completed",
                                      !.messages = messages,
                                      !.pre = state,
                                      !.ret = r.ret]
            /\ UNCHANGED <<convs, env>>

\* The call env_response(messages, st) reaches send_get_request.
SendsGet(messages, st) == env_response(messages, st, NoBackend).requests # <<>>

\* A call of env_response(messages, state); the backend outcome is drawn
\* when the call reaches send_get_request.
EnvResponse ==
    \E messages \in Histories :
    \E backend \in (IF SendsGet(messages, state) THEN BackendOutcomes ELSE {NoBackend}) :
        LET r == env_response(messages, state, backend)
        IN  /\ state' = r.state
            /\ last' = [NoCall EXCEPT !.op = "env_response",
                                      !.messages = messages,
                                      !.pre = state,
                                      !.response = r.response,
                                      !.requests = r.requests,
                                      !.raised = r.raised,
                                      !.backend = backend]
            /\ UNCHANGED <<convs, env>>

\* A call of the reward function on the conversation's state.
Reward ==
    \E completion \in Completions, case_id \in CaseIds,
       healthy \in BOOLEAN, grader \in GraderOutcomes :
        /\ state' = state
        /\ last' = [NoCall EXCEPT !.op = "reward",
                                  !.messages = completion,
                                  !.pre = state,
                                  !.case_id = case_id,
                                  !.healthy = healthy,
                                  !.grader = grader,
                                  !.graded = medagent_bench_reward_func(
                                                 completion, case_id, state,
                                                 healthy, grader)]
        /\ UNCHANGED <<convs, env>>

Next == IsCompleted \/ EnvResponse \/ Reward

Spec == Init /\ [][Next]_vars


(***************************************************************************)
(* Rollouts: each conversation is driven turn by turn.  The assistant      *)
(* speaks, is_completed runs on the new message, env_response runs when    *)
(* the check returned false and the turn limit is not reached, and its     *)
(* messages are appended.  The steps of the conversations interleave.      *)
(***************************************************************************)
\* What the assistant says in a rollout.
RolloutUtterances == {U_FINISH_1_2, U_HELLO, U_GET, U_POST_JSON}

\* What send_get_request does in a rollout.
RolloutOutcomes ==
    {Returned("data" :> <<"X">>), Returned("error" :> <<"E">>),
     [raises |-> TRUE, result |-> <<>>]}

\* The attributes of the environment after is_completed: it assigns none.
is_completed_self(self) == self

\* Variant: the executor keeps the url it sent as the base url.
env_response_self_Rebased(self, requests) ==
    IF requests = <<>> THEN self
    ELSE [self EXCEPT !.fhir_api_base = requests[1]]

\* The attributes of the environment after env_response: it assigns none.
env_response_self(self, requests) == self

\* The assistant's message is appended to the conversation.
Spoken(c, utterance) ==
    [c EXCEPT !.messages = Append(@, Msg("assistant", utterance)),
              !.turns    = @ + 1,
              !.script   = Append(@, [utterance |-> utterance, backend |-> NoBackend]),
              !.pc       = "check"]

\* The completion check has run on the conversation.
Checked(c) ==
    LET r == is_completed(c.messages, c.state)
    IN  [c EXCEPT !.state = r.state,
                  !.pc    = IF r.ret \/ c.turns >= MaxTurns THEN "done" ELSE "respond"]

\* The executor has run on the conversation; an exception ends the rollout.
Responded(c, backend) ==
    LET r == env_response(c.messages, c.state, backend)
    IN  [c EXCEPT !.messages = @ \o r.response,
                  !.state    = r.state,
                  !.requests = @ \o r.requests,
                  !.script   = [@ EXCEPT ![Len(@)].backend = backend],
                  !.pc       = IF r.raised THEN "failed" ELSE "agent"]

\* The reward function has run on the finished conversation.
Graded(c, case_id, healthy, grader) ==
    [c EXCEPT !.graded = medagent_bench_reward_func(c.messages, case_id, c.state,
                                                    healthy, grader),
              !.pc     = "graded"]

AgentSpeaks(i) ==
    /\ convs[i].pc = "agent"
    /\ \E utterance \in RolloutUtterances :
          convs' = [convs EXCEPT ![i] = Spoken(@, utterance)]
    /\ UNCHANGED <<state, last, env>>

Check(i) ==
    /\ convs[i].pc = "check"
    /\ convs' = [convs EXCEPT ![i] = Checked(@)]
    /\ env' = is_completed_self(env)
    /\ UNCHANGED <<state, last>>

Respond(i) ==
    /\ convs[i].pc = "respond"
    /\ \E backend \in (IF SendsGet(convs[i].messages, convs[i].state)
                       THEN RolloutOutcomes ELSE {NoBackend}) :
          /\ convs' = [convs EXCEPT ![i] = Responded(@, backend)]
          /\ env' = env_response_self(env, convs'[i].requests)
    /\ UNCHANGED <<state, last>>

Grade(i) ==
    /\ convs[i].pc = "done"
    /\ \E healthy \in BOOLEAN, grader \in {"True", "False"} :
          convs' = [convs EXCEPT ![i] = Graded(@, CASE_TASK3_7, healthy, grader)]
    /\ UNCHANGED <<state, last, env>>

NextRollout ==
    \E i \in Conversations : AgentSpeaks(i) \/ Check(i) \/ Respond(i) \/ Grade(i)

SpecRollout == Init /\ [][NextRollout]_vars

\* One conversation run alone on the turns of a script: each turn is the
\* assistant's message, the check, and the executor with the backend
\* outcome the script recorded.
RECURSIVE RunAlone(_, _)
RunAlone(c, script) ==
    IF script = <<>> \/ c.pc # "agent" THEN c
    ELSE LET checked == Checked(Spoken(c, Head(script).utterance))
             turned  == IF checked.pc = "respond"
                        THEN Responded(checked, Head(script).backend)
                        ELSE checked
         IN  RunAlone(turned, Tail(script))

(***************************************************************************)
(* Vocabulary of the properties                                            *)
(***************************************************************************)
Status(st) == DictGet(st, "status")

Terminal(st) == Status(st) \in {"completed", "invalid_action"}

\* "active": no terminal status has been written.
Active(st) == Status(st) = None

HasFinalAnswer(st) == "final_answer" \in DOMAIN st

\* The message list ends with an assistant message.
EndsWithAssistant(messages) ==
    messages # <<>> /\ messages[Len(messages)].role = "assistant"

\* The text of the last message as written, and with fences and whitespace stripped.
RawUtterance(messages) == messages[Len(messages)].content

Utterance(messages) == StripFences(RawUtterance(messages))

BeginsFinish(content) == StartsWith(content, FINISH_PREFIX)

BeginsGet(content) == StartsWith(content, GET_PREFIX)

BeginsPost(content) == StartsWith(content, POST_PREFIX)

\* The last call was `op` on a message list ending with an assistant message.
Processed(op) == last.op = op /\ EndsWithAssistant(last.messages)

\* The text ends with the reminder to call FINISH.
EndsWithReminder(content) ==
    content # <<>> /\ content[Len(content)] = FINISH_REMINDER

\* The text holds `part` verbatim, and the reminder after it.
HoldsThenReminder(content, part) ==
    /\ EndsWithReminder(content)
    /\ \E i \in 1..Len(content) :
          /\ i + Len(part) - 1 < Len(content)
          /\ SubSeq(content, i, i + Len(part) - 1) = part

\* The text after the first line of the content (empty when there is one line).
AfterFirstLine(content) ==
    LET breaks == {i \in 1..Len(content) : content[i] = "\n"}
    IN  IF breaks = {} THEN <<>>
        ELSE LET k == CHOOSE i \in breaks : \A j \in breaks : i <= j
             IN  SubSeq(content, k + 1, Len(content))

(***************************************************************************)
(* Properties                                                              *)
(***************************************************************************)
\* C1: in every step the status stays as it is, or moves from active to
\* completed or to invalid_action; once it is completed or invalid_action
\* no call of is_completed or env_response changes it again.
C1_StatusTransitions ==
    [][/\ Status(state') \in {None, "completed", "invalid_action"}
       /\ Status(state') # Status(state) => Active(state)
       /\ Terminal(state) => Status(state') = Status(state)]_vars

\* C1 witness: is_completed ran on a FINISH utterance while the status was
\* invalid_action, and on an unknown command while it was completed.
C1_Witness ==
    /\ Processed("is_completed")
    /\ \/ Status(last.pre) = "invalid_action" /\ BeginsFinish(Utterance(last.messages))
       \/ Status(last.pre) = "completed" /\ RawUtterance(last.messages) = U_HELLO

\* C2: final_answer is in the state exactly when the status is completed,
\* and the call that sets the status to completed is the one that adds it.
C2_FinalAnswerIffCompleted ==
    /\ HasFinalAnswer(state) <=> Status(state) = "completed"
    /\ (last.op = "is_completed" /\ Status(state) = "completed"
            /\ Status(last.pre) # "completed")
        => ~HasFinalAnswer(last.pre) /\ HasFinalAnswer(state)

\* C2 witness: the call that has just completed the conversation.
C2_Witness ==
    /\ last.op = "is_completed"
    /\ Active(last.pre)
    /\ Status(state) = "completed"
    /\ HasFinalAnswer(state)

\* C3 (as claimed): once the status is completed or invalid_action, a call
\* of is_completed on any message list returns true and leaves the state
\* as it was.
C3_TerminalCheckReturnsTrue ==
    (last.op = "is_completed" /\ Terminal(last.pre))
        => last.ret = TRUE /\ state = last.pre

\* C4 (as claimed): FINISH([1, 2]) from active gives status completed and
\* the final answer "1, 2".
C4_FinishStoresListItems ==
    (Processed("is_completed") /\ Active(last.pre)
        /\ RawUtterance(last.messages) = U_FINISH_1_2)
    => /\ Status(state) = "completed"
       /\ DictGet(state, "final_answer") = <<"1", ",", " ", "2">>

\* C4 (amended): FINISH([1, 2]) from active gives status completed and the
\* final answer "[1, 2]", the text between the parentheses.
C4_FinishStoresBracketedList ==
    (Processed("is_completed") /\ Active(last.pre)
        /\ RawUtterance(last.messages) = U_FINISH_1_2)
    => /\ last.ret = TRUE
       /\ Status(state) = "completed"
       /\ DictGet(state, "final_answer") = <<"[", "1", ",", " ", "2", "]">>

\* C4 witness: is_completed has processed FINISH([1, 2]) from active.
C4_Witness ==
    /\ Processed("is_completed")
    /\ Active(last.pre)
    /\ RawUtterance(last.messages) = U_FINISH_1_2
    /\ HasFinalAnswer(state)

\* C5: an utterance that begins with none of FINISH(, GET, POST makes
\* is_completed, from active, set invalid_action and return true without a
\* final answer; env_response on it returns no message and sends nothing.
C5_InvalidCommandEnds ==
    LET unknown == /\ ~BeginsFinish(Utterance(last.messages))
                   /\ ~BeginsGet(Utterance(last.messages))
                   /\ ~BeginsPost(Utterance(last.messages))
    IN  /\ (Processed("is_completed") /\ Active(last.pre) /\ unknown)
            => /\ last.ret = TRUE
               /\ Status(state) = "invalid_action"
               /\ ~HasFinalAnswer(state)
        /\ (Processed("env_response") /\ unknown)
            => /\ last.response = <<>>
               /\ last.requests = <<>>
               /\ ~last.raised
               /\ state = last.pre

\* C5 witness: is_completed has processed HELLO from active.
C5_Witness ==
    /\ Processed("is_completed")
    /\ Active(last.pre)
    /\ RawUtterance(last.messages) = U_HELLO
    /\ Status(state) = "invalid_action"

\* C6: a GET processed while active whose backend result has a data field
\* gives exactly one user message that holds the payload verbatim and then
\* the FINISH reminder, and leaves the state as it was.
C6_GetDataObservation ==
    (Processed("env_response") /\ Active(last.pre)
        /\ BeginsGet(Utterance(last.messages))
        /\ ~last.backend.raises /\ "data" \in DOMAIN last.backend.result)
    => /\ ~last.raised
       /\ Len(last.response) = 1
       /\ last.response[1].role = "user"
       /\ HoldsThenReminder(last.response[1].content, last.backend.result["data"])
       /\ state = last.pre

\* C6 witness: GET patients?id=1 answered with the payload X.
C6_Witness ==
    /\ Processed("env_response")
    /\ Active(last.pre)
    /\ RawUtterance(last.messages) = U_GET
    /\ last.backend = Returned("data" :> <<"X">>)
    /\ Len(last.response) = 1

\* The text holds `part` verbatim.
Holds(content, part) ==
    \E i \in 1..Len(content) :
        /\ i + Len(part) - 1 <= Len(content)
        /\ SubSeq(content, i, i + Len(part) - 1) = part

\* C7: a GET processed while active whose backend result reports an error
\* gives exactly one user message that holds the error text, and the state
\* stays active; the completion check does not end the conversation, and
\* whatever the assistant says next is handled by is_completed and
\* env_response as it would be had the backend returned data instead.
C7_GetErrorContinues ==
    (Processed("env_response") /\ Active(last.pre)
        /\ BeginsGet(Utterance(last.messages))
        /\ ~last.backend.raises /\ DOMAIN last.backend.result = {"error"})
    => /\ ~last.raised
       /\ Len(last.response) = 1
       /\ last.response[1].role = "user"
       /\ Holds(last.response[1].content, last.backend.result["error"])
       /\ state = last.pre
       /\ Active(state)
       /\ ~is_completed(last.messages \o last.response, state).ret
       /\ \A d \in Payloads, u \in Utterances, b \in BackendOutcomes :
            LET ok      == env_response(last.messages, last.pre, Returned("data" :> d))
                nextErr == last.messages \o last.response \o <<Msg("assistant", u)>>
                nextOk  == last.messages \o ok.response \o <<Msg("assistant", u)>>
            IN  /\ is_completed(nextErr, state) = is_completed(nextOk, ok.state)
                /\ env_response(nextErr, state, b) = env_response(nextOk, ok.state, b)

\* C7 witness: GET patients?id=1 answered with the error E.
C7_Witness ==
    /\ Processed("env_response")
    /\ Active(last.pre)
    /\ RawUtterance(last.messages) = U_GET
    /\ last.backend = Returned("error" :> <<"E">>)
    /\ Len(last.response) = 1

\* C8: a POST sends nothing to the backend and leaves the state as it was;
\* it is answered with the acceptance message and the reminder when the
\* text after the first line is JSON, and with 'Invalid POST request
\* format' when it is not, an empty body included.
C8_PostIsAcknowledgedOnly ==
    (Processed("env_response") /\ BeginsPost(Utterance(last.messages)))
    => /\ last.requests = <<>>
       /\ ~last.raised
       /\ state = last.pre
       /\ Active(last.pre) => Active(state)
       /\ last.response =
            IF json_loads(AfterFirstLine(Utterance(last.messages)))
            THEN <<Msg("user", <<POST_ACCEPTED, FINISH_REMINDER>>)>>
            ELSE <<Msg("user", <<POST_INVALID>>)>>
       /\ RawUtterance(last.messages) \in {U_POST_JSON, U_POST_SPACED}
            => last.response = <<Msg("user", <<POST_ACCEPTED, FINISH_REMINDER>>)>>
       /\ RawUtterance(last.messages) \in {U_POST_BAD, U_POST_NOBODY}
            => last.response = <<Msg("user", <<POST_INVALID>>)>>

\* C8 witness: the well-formed POST has been accepted while active.
C8_Witness ==
    /\ Processed("env_response")
    /\ Active(last.pre)
    /\ RawUtterance(last.messages) = U_POST_JSON
    /\ Len(last.response) = 1

\* The backend result of the last call has a data or an error field.
BackendAnswered ==
    ~last.backend.raises /\ DOMAIN last.backend.result # {}

\* C9 (as claimed): every GET or POST turn, succeeding or failing, gives
\* exactly one message, and it ends with the FINISH reminder; a FINISH or
\* unknown utterance gives none.
C9_ObservationAlwaysReminds ==
    /\ (Processed("env_response")
            /\ \/ BeginsPost(Utterance(last.messages))
               \/ BeginsGet(Utterance(last.messages)) /\ BackendAnswered)
        => /\ Len(last.response) = 1
           /\ EndsWithReminder(last.response[1].content)
    /\ (Processed("env_response")
            /\ ~BeginsPost(Utterance(last.messages))
            /\ ~BeginsGet(Utterance(last.messages)))
        => last.response = <<>>

\* C9 (amended): every POST turn, and every GET turn whose backend result
\* has a data or an error field, gives exactly one user message; it ends
\* with the FINISH reminder exactly when the GET result has a data field or
\* the POST body is JSON; a FINISH or unknown utterance gives none.
C9_ObservationRemindsOnSuccess ==
    LET content == Utterance(last.messages)
        success == \/ BeginsGet(content) /\ "data" \in DOMAIN last.backend.result
                   \/ BeginsPost(content) /\ json_loads(AfterFirstLine(content))
    IN  /\ (Processed("env_response")
                /\ (BeginsPost(content) \/ (BeginsGet(content) /\ BackendAnswered)))
            => /\ Len(last.response) = 1
               /\ last.response[1].role = "user"
               /\ EndsWithReminder(last.response[1].content) <=> success
        /\ (Processed("env_response") /\ ~BeginsPost(content) /\ ~BeginsGet(content))
            => last.response = <<>>

\* C9 witness: a GET answered with an error, or a POST with a malformed
\* body, has produced its one message.
C9_Witness ==
    /\ Processed("env_response")
    /\ Len(last.response) = 1
    /\ ~EndsWithReminder(last.response[1].content)
    /\ \/ RawUtterance(last.messages) = U_POST_BAD
       \/ BeginsGet(Utterance(last.messages)) /\ DOMAIN last.backend.result = {"error"}

\* C10: when the status is not completed, or final_answer is absent, the
\* reward is 0, and neither the health check nor a grader is called,
\* whatever they would have answered.
C10_NoGradingUnlessCompleted ==
    (last.op = "reward"
        /\ (Status(last.pre) # "completed" \/ ~HasFinalAnswer(last.pre)))
    => /\ last.graded.reward = 0
       /\ ~last.graded.verified
       /\ last.graded.called = <<>>

\* C10 witness: the reward function ran on an invalid_action conversation
\* with a reachable backend and a grader that would have returned True.
C10_Witness ==
    /\ last.op = "reward"
    /\ Status(last.pre) = "invalid_action"
    /\ last.healthy
    /\ last.grader = "True"
    /\ last.case_id = CASE_TASK3_7
    /\ last.graded.reward = 0

\* The reward function was called on a completed conversation with an answer.
GradedCompleted ==
    /\ last.op = "reward"
    /\ Status(last.pre) = "completed"
    /\ HasFinalAnswer(last.pre)

\* The part of a case identifier before its first underscore (the whole
\* identifier when it has none).
BeforeFirstUnderscore(case_id) ==
    LET marks == {i \in 1..Len(case_id) : case_id[i] = "_"}
    IN  IF marks = {} THEN case_id
        ELSE LET k == CHOOSE i \in marks : \A j \in marks : i <= j
             IN  SubSeq(case_id, 1, k - 1)

\* C11: when the health check fails at grading time the reward is 0 and no
\* grader is called, also for a completed conversation whose grader would
\* return True.
C11_UnreachableBackendFailsClosed ==
    (GradedCompleted /\ ~last.healthy)
    => /\ last.graded.reward = 0
       /\ last.graded.verified
       /\ last.graded.called = <<>>

\* C11 witness: a completed conversation graded while the backend is
\* unreachable, with a registered grader that would return True.
C11_Witness ==
    /\ GradedCompleted
    /\ ~last.healthy
    /\ last.grader = "True"
    /\ last.case_id = CASE_TASK3_7
    /\ last.graded.reward = 0

\* C12: for a completed conversation and a reachable backend the reward
\* function returns, with 0 or 1, and it returns 1 exactly when a grader is
\* registered for the task identifier and returns True; a grader that
\* raises, is missing, or returns anything else gives 0.
C12_RewardIsBinary ==
    (GradedCompleted /\ last.healthy)
    => /\ ~last.graded.raised
       /\ last.graded.verified
       /\ last.graded.reward \in {0, 1}
       /\ last.graded.reward = 1
            <=> /\ BeforeFirstUnderscore(last.case_id) \in RegisteredGraders
                /\ last.grader = "True"

\* C12 witness: a registered grader returned a truthy value that is not
\* True and the reward is 0.
C12_Witness ==
    /\ GradedCompleted
    /\ last.healthy
    /\ last.grader = "truthy"
    /\ last.case_id = CASE_TASK3_7
    /\ last.graded.called # <<>>
    /\ last.graded.reward = 0

\* The action the claim's rule gives a stripped content.
ActionOf(content) ==
    IF BeginsFinish(content) THEN "Finish"
    ELSE IF BeginsGet(content) THEN "Get"
    ELSE IF BeginsPost(content) THEN "Post"
    ELSE "Invalid"

\* The action is_completed took, from what it returned and wrote.
CheckedAs ==
    IF Status(state) = "completed" THEN "Finish"
    ELSE IF Status(state) = "invalid_action" THEN "Invalid"
    ELSE IF last.ret THEN "None"
    ELSE "GetOrPost"

\* The action env_response took, from what it sent and returned.
ExecutedAs ==
    IF last.requests # <<>> THEN "Get"
    ELSE IF last.response # <<>> THEN "Post"
    ELSE "FinishOrInvalid"

\* C13: is_completed (from active) and env_response treat every assistant
\* utterance as the one action given by the prefix of its stripped content,
\* FINISH( before GET before POST, anything else Invalid; lower-case "get"
\* and FINISH without the parenthesis are Invalid, fenced commands are
\* classified by what the fences enclose.
C13_PrefixClassification ==
    LET action == ActionOf(Utterance(last.messages))
        raw    == RawUtterance(last.messages)
    IN  /\ (Processed("is_completed") /\ Active(last.pre))
            => /\ CheckedAs = (IF action \in {"Get", "Post"} THEN "GetOrPost" ELSE action)
               /\ raw \in {U_FINISH_1_2, U_FINISH_BARE, U_FINISH_OPEN, U_FINISH_FENCED}
                    => CheckedAs = "Finish"
               /\ raw \in {U_FINISH_WORD, U_HELLO, U_EMPTY, U_GET_LOWER}
                    => CheckedAs = "Invalid"
               /\ raw \in {U_GET, U_GET_FENCED, U_POST_JSON, U_POST_BAD,
                           U_POST_NOBODY, U_POST_SPACED}
                    => CheckedAs = "GetOrPost"
        /\ Processed("env_response")
            => /\ ExecutedAs = (IF action \in {"Finish", "Invalid"}
                                THEN "FinishOrInvalid" ELSE action)
               /\ raw \in {U_GET, U_GET_FENCED} => ExecutedAs = "Get"
               /\ raw \in {U_POST_JSON, U_POST_BAD, U_POST_NOBODY, U_POST_SPACED}
                    => ExecutedAs = "Post"
               /\ raw \in {U_FINISH_WORD, U_HELLO, U_EMPTY, U_GET_LOWER, U_FINISH_1_2}
                    => ExecutedAs = "FinishOrInvalid"

\* C13 witness: the fenced GET has been sent to the backend.
C13_Witness ==
    /\ Processed("env_response")
    /\ RawUtterance(last.messages) = U_GET_FENCED
    /\ last.requests # <<>>

\* C15 (as claimed): whatever send_get_request does for a GET processed
\* while active, env_response returns one observation, does not raise and
\* leaves the state as it was.
C15_GetNeverRaises ==
    (Processed("env_response") /\ Active(last.pre)
        /\ BeginsGet(Utterance(last.messages)))
    => /\ ~last.raised
       /\ Len(last.response) = 1
       /\ state = last.pre

\* C17: the grader called is the one registered under the part of the case
\* identifier before its first underscore; task3_7 and task3_0 are both
\* graded by task3.
C17_DispatchByTaskId ==
    (GradedCompleted /\ last.healthy)
    => /\ last.graded.called =
            IF BeforeFirstUnderscore(last.case_id) \in RegisteredGraders
            THEN BeforeFirstUnderscore(last.case_id) ELSE <<>>
       /\ last.case_id \in {CASE_TASK3_7, CASE_TASK3_0}
            => last.graded.called = <<"t", "a", "s", "k", "3">>
       /\ last.case_id = CASE_TASK1_2_3
            => last.graded.called = <<"t", "a", "s", "k", "1">>

\* C17 witness: task3_7 has been graded by task3.
C17_Witness ==
    /\ GradedCompleted
    /\ last.healthy
    /\ last.case_id = CASE_TASK3_7
    /\ last.graded.called = <<"t", "a", "s", "k", "3">>

\* C18: every utterance whose stripped content begins with FINISH(, closed
\* or not, makes is_completed (from active) return true, set completed and
\* store the content without its first 7 characters and its last one.
C18_FinishAcceptedAsIs ==
    LET content == Utterance(last.messages)
    IN  (Processed("is_completed") /\ Active(last.pre) /\ BeginsFinish(content))
        => /\ last.ret = TRUE
           /\ Status(state) = "completed"
           /\ HasFinalAnswer(state)
           /\ DictGet(state, "final_answer") = SubSeq(content, 8, Len(content) - 1)
           /\ content = FINISH_PREFIX => DictGet(state, "final_answer") = <<>>

\* C18 witness: FINISH([1 , without the closing parenthesis, has been
\* accepted.
C18_Witness ==
    /\ Processed("is_completed")
    /\ Active(last.pre)
    /\ RawUtterance(last.messages) = U_FINISH_OPEN
    /\ Status(state) = "completed"

\* C20: for an assistant utterance checked while active, is_completed
\* returns false exactly when env_response, on the same messages and with a
\* backend that answers with data or with an error, returns one
\* observation; when is_completed returns true env_response returns none.
C20_CheckAndExecutorAgree ==
    (Processed("is_completed") /\ Active(last.pre))
    => \A backend \in BackendOutcomes :
         (~backend.raises /\ DOMAIN backend.result # {})
         => LET executed == env_response(last.messages, last.pre, backend)
            IN  /\ ~executed.raised
                /\ ~last.ret <=> Len(executed.response) = 1
                /\ last.ret => executed.response = <<>>

\* C20 witness: the check has let the malformed POST through.
C20_Witness ==
    /\ Processed("is_completed")
    /\ Active(last.pre)
    /\ RawUtterance(last.messages) = U_POST_BAD
    /\ ~last.ret

\* What a conversation shows: its messages, its state dict (status and
\* final_answer), the requests it sent and where it stands.
Outcome(c) ==
    [messages |-> c.messages, state |-> c.state, requests |-> c.requests,
     pc |-> c.pc, turns |-> c.turns]

\* The conversation is between two turns, or over.
BetweenTurns(c) == c.pc \in {"agent", "done", "failed"}

\* C14: with the steps of the conversations interleaved in any order, each
\* conversation between two turns shows the messages, state and requests it
\* has when run alone on its own turns, and the environment's function
\* catalog and base url are never changed.
C14_ConversationsIndependent ==
    /\ env = MedAgentBenchEnv_init
    /\ \A i \in Conversations :
          BetweenTurns(convs[i])
          => Outcome(convs[i]) = Outcome(RunAlone(NewConversation, convs[i].script))

\* C14 witness: conversation a is in the middle of its second turn, after a
\* GET, while conversation b has finished with a different status.
C14_Witness ==
    /\ convs["a"].pc = "check"
    /\ convs["a"].turns = 2
    /\ convs["a"].requests # <<>>
    /\ convs["b"].pc = "done"
    /\ Status(convs["b"].state) = "invalid_action"

\* C16: the Results object built for a completed conversation lists its
\* messages one for one and in order, assistant messages tagged agent and
\* user messages tagged user, and its result is the stored final answer.
C16_ResultsReplayHistory ==
    \A i \in Conversations :
        LET c == convs[i]
        IN  (c.pc = "graded" /\ Status(c.state) = "completed" /\ HasFinalAnswer(c.state))
            => /\ c.graded.results.result = c.state["final_answer"]
               /\ Len(c.graded.results.history) = Len(c.messages)
               /\ \A k \in 1..Len(c.messages) :
                    /\ c.graded.results.history[k].content = c.messages[k].content
                    /\ c.graded.results.history[k].role =
                         IF c.messages[k].role = "assistant" THEN "agent" ELSE "user"

\* C16 witness: a conversation of prompt, GET, observation and FINISH has
\* been graded.
C16_Witness ==
    /\ convs["a"].pc = "graded"
    /\ Status(convs["a"].state) = "completed"
    /\ Len(convs["a"].messages) = 4
    /\ Len(convs["a"].graded.results.history) = 4

\* C19: in a rollout the executor runs only on GET and POST utterances; the
\* check that completes a conversation stores the answer, appends nothing
\* and sends nothing, so the FINISH utterance stays the last message; and
\* once the status is completed or invalid_action the conversation is over:
\* no message is appended and no request is sent.
C19_ExecutorOnlyForGetAndPost ==
    /\ [](\A i \in Conversations :
            LET c == convs[i]
            IN  /\ c.pc = "respond"
                    => \/ BeginsGet(Utterance(c.messages))
                       \/ BeginsPost(Utterance(c.messages))
                /\ Terminal(c.state) => c.pc \in {"done", "graded"}
                /\ Status(c.state) = "completed"
                    => /\ HasFinalAnswer(c.state)
                       /\ EndsWithAssistant(c.messages)
                       /\ BeginsFinish(Utterance(c.messages)))
    /\ [][\A i \in Conversations :
            /\ Terminal(convs'[i].state)
                => /\ convs'[i].messages = convs[i].messages
                   /\ convs'[i].requests = convs[i].requests
            /\ Len(convs'[i].requests) > Len(convs[i].requests)
                => BeginsGet(Utterance(convs[i].messages))]_vars

\* C19 witness: a conversation has ended on FINISH after a GET turn.
C19_Witness ==
    /\ convs["a"].pc = "done"
    /\ Status(convs["a"].state) = "completed"
    /\ Len(convs["a"].requests) = 1
    /\ Len(convs["a"].messages) = 4

====
